---- MODULE Spec2Model ----
(***************************************************************************)
(* Model of the vekta embedding tools: the text embedder (text_embed.rs),  *)
(* the reranker (rerank.rs) and the batch sizer (utils.rs).                *)
(*                                                                         *)
(* A string is a sequence of one-character strings.  The standard library  *)
(* calls the tools make on strings (str::lines, str::split_whitespace,     *)
(* slice::chunks, join, chars().take) are modelled by what they return.    *)
(***************************************************************************)
EXTENDS Integers, Sequences, FiniteSets, TLC

VARIABLES
    \* --- calls of the pure functions of text_embed.rs
    arg_content,      \* content / text argument
    arg_chunk_size,   \* chunk_size argument
    arg_chunk_index,  \* chunk_index argument
    ret_chunks,       \* value returned by split_into_chunks
    ret_range,        \* value returned by get_line_range
    returned,         \* the functions that have returned
    \* --- utils::detect_system_resources
    total_memory,     \* system.total_memory(): a u64 byte count, as <<GiB, bytes below>>
    cpu_count,        \* system.physical_core_count().unwrap_or(1)
    batch_size,       \* the value returned; 0 before the call
    \* --- a run of a tool: its environment
    argv1,            \* args[1]: "none" when args.len() < 2
    stdin,            \* the lines of standard input not read yet
    fs,               \* the file system: path -> [exists, data]
    stdout,           \* the lines written to standard output
    exit_code,        \* -1 while running; 0 success, 1 error returned, 101 panic
    pc,               \* where main is
    overflow_checks,  \* build profile: TRUE when arithmetic overflow panics
    \* --- text_embed.rs: locals of main
    main_path,        \* path
    main_content,     \* content
    chunks,           \* chunks
    batch_index,      \* batch_index
    embeddings,       \* embeddings
    emb_i,            \* i, the position in embeddings
    file_count,       \* file_count
    \* --- text_embed.rs: what happened so far
    embed_calls,      \* batch lengths of the embed calls made for the current file
    file_out_start,   \* number of lines on stdout when the current file was opened
    failed_at,        \* number of lines on stdout at the first failure; -1 when none
    \* --- rerank.rs: locals of main
    input,            \* input
    documents,        \* documents, as far as resolved
    results,          \* results
    res_i,            \* number of results written
    \* --- rerank.rs: what happened so far
    rerank_calls,     \* number of calls of model.rerank
    error             \* the message the process ended with; "" when none

fn_vars == <<arg_content, arg_chunk_size, arg_chunk_index, ret_chunks, ret_range, returned>>
res_vars == <<total_memory, cpu_count, batch_size>>
env_vars == <<argv1, stdin, fs, stdout, exit_code, pc, overflow_checks>>
vte_vars == <<main_path, main_content, chunks, batch_index, embeddings, emb_i, file_count,
              embed_calls, file_out_start, failed_at>>
vre_vars == <<input, documents, results, res_i, rerank_calls, error>>
vars == <<fn_vars, res_vars, env_vars, vte_vars, vre_vars>>

\* ------------------------------------------------------------------ bounds
MaxLen == 4          \* longest content over the whole alphabet
MaxChunkSize == 2    \* largest chunk_size argument
MaxChunkIndex == 2   \* largest chunk_index argument
MaxCores == 3        \* largest core count
MaxGiB == 33         \* largest memory size, in GiB
MaxLines == 2        \* most lines on the standard input of vte
MaxRecords == 2      \* most lines on the standard input of vre

\* ------------------------------------------------------------------ strings
NL == "\n"
CR == "\r"
SP == " "

Min(a, b) == IF a < b THEN a ELSE b
Max(a, b) == IF a > b THEN a ELSE b
CeilDiv(a, b) == (a + b - 1) \div b

\* char::is_whitespace, on the characters the model uses
is_whitespace(c) == c \in {SP, NL, CR, "\t"}

\* The elements of the set S of integers of lo..hi, ascending.
RECURSIVE Ascending(_, _, _)
Ascending(S, lo, hi) ==
    IF S = {} THEN <<>>
    ELSE IF lo = hi THEN <<lo>>
    ELSE LET mid == (lo + hi) \div 2
         IN  Ascending({x \in S : x <= mid}, lo, mid)
                 \o Ascending({x \in S : x > mid}, mid + 1, hi)

\* The positions where a word starts and where one ends: a word is a maximal
\* run of non-whitespace characters.
word_starts(s) ==
    {i \in 1..Len(s) : ~is_whitespace(s[i]) /\ (i = 1 \/ is_whitespace(s[i - 1]))}
word_ends(s) ==
    {i \in 1..Len(s) : ~is_whitespace(s[i]) /\ (i = Len(s) \/ is_whitespace(s[i + 1]))}

\* str::split_whitespace: the words, in order.
split_whitespace(s) ==
    LET st == Ascending(word_starts(s), 1, Len(s))
        en == Ascending(word_ends(s), 1, Len(s))
    IN  [k \in 1..Len(st) |-> SubSeq(s, st[k], en[k])]

\* str::split_whitespace().count()
count_words(s) == Cardinality(word_starts(s))

\* str::lines: split at every "\n"; the terminator, and a "\r" right before it,
\* are not part of the line; a final line without terminator counts, an empty
\* remainder after the last "\n" does not.
lines(s) ==
    LET n == Len(s)
        nl == Ascending({i \in 1..n : s[i] = NL}, 1, n)
        m == Len(nl)
        last == IF m = 0 THEN 0 ELSE nl[m]
        count == IF last < n THEN m + 1 ELSE m
        from(k) == IF k = 1 THEN 1 ELSE nl[k - 1] + 1
        to(k) == IF k <= m
                 THEN (IF nl[k] > from(k) /\ s[nl[k] - 1] = CR THEN nl[k] - 2 ELSE nl[k] - 1)
                 ELSE n
    IN  [k \in 1..count |-> SubSeq(s, from(k), to(k))]

\* [T]::join / Vec<&str>::join(sep), items lo..hi of ws
RECURSIVE JoinRange(_, _, _, _)
JoinRange(ws, lo, hi, sep) ==
    IF lo > hi THEN <<>>
    ELSE IF lo = hi THEN ws[lo]
    ELSE LET mid == (lo + hi) \div 2
         IN  JoinRange(ws, lo, mid, sep) \o sep \o JoinRange(ws, mid + 1, hi, sep)

join(ws, sep) == JoinRange(ws, 1, Len(ws), sep)

\* slice::chunks(size): consecutive groups of `size` items, the last one shorter
\* when the length is no multiple of size; no group for an empty slice.
slice_chunks(xs, size) ==
    [j \in 1..CeilDiv(Len(xs), size) |->
        SubSeq(xs, (j - 1) * size + 1, Min(j * size, Len(xs)))]

\* str::trim: without the leading and trailing whitespace
trim(s) ==
    LET keep == {i \in 1..Len(s) : ~is_whitespace(s[i])}
    IN  IF keep = {} THEN <<>>
        ELSE SubSeq(s, CHOOSE a \in keep : \A x \in keep : a <= x,
                       CHOOSE b \in keep : \A x \in keep : b >= x)

\* Path::file_name().unwrap_or_default(): the last component of the path, read
\* without its trailing separators; nothing when that is ".." or the path is empty.
file_name(path) ==
    LET body == {i \in 1..Len(path) : path[i] # "/"}
        last == IF body = {} THEN 0 ELSE CHOOSE b \in body : \A x \in body : b >= x
        seps == {i \in 1..last : path[i] = "/"}
        from == IF seps = {} THEN 1 ELSE (CHOOSE b \in seps : \A x \in seps : b >= x) + 1
        name == SubSeq(path, from, last)
    IN  IF name = <<".", ".">> THEN <<>> ELSE name

\* fs::read_to_string(path): Ok(data) for a file that is there, Err otherwise
read_to_string(files, path) ==
    IF path \in DOMAIN files /\ files[path].exists
    THEN [ok |-> TRUE, data |-> files[path].data]
    ELSE [ok |-> FALSE, data |-> <<>>]

\* usize subtraction a - b.  With overflow checks (the dev profile) a negative
\* difference panics; without (the release profile) it wraps to 2^64 - (b - a),
\* which stands here as the largest integer of TLC minus (b - a) - 1:
\* more than the length of any sequence of the model.
sub_usize(a, b, checks) ==
    IF a >= b THEN [panic |-> FALSE, value |-> a - b]
    ELSE IF checks THEN [panic |-> TRUE, value |-> 0]
    ELSE [panic |-> FALSE, value |-> 2147483647 - (b - a) + 1]

\* Iterator::skip(n).take(m) on a sequence
skip_take(xs, n, m) ==
    IF n >= Len(xs) THEN <<>>
    ELSE SubSeq(xs, n + 1, IF m >= Len(xs) - n THEN Len(xs) ELSE n + m)

\* format!("{}", n) of an unsigned integer
RECURSIVE to_decimal(_)
to_decimal(n) ==
    LET digit == <<"0", "1", "2", "3", "4", "5", "6", "7", "8", "9">>[(n % 10) + 1]
    IN  IF n < 10 THEN <<digit>> ELSE Append(to_decimal(n \div 10), digit)

\* ------------------------------------------------------------ text_embed.rs
CHUNK_SIZE == 256

\* Mutant of split_into_chunks: chunks_exact, which drops a shorter last group.
split_into_chunks_exact(text, chunk_size) ==
    LET words == split_whitespace(text)
    IN  [j \in 1..(Len(words) \div chunk_size) |->
            join(SubSeq(words, (j - 1) * chunk_size + 1, j * chunk_size), <<SP>>)]

split_into_chunks(text, chunk_size) ==
    LET words == split_whitespace(text)
        groups == slice_chunks(words, chunk_size)
    IN  [j \in 1..Len(groups) |-> join(groups[j], <<SP>>)]

\* Mutant of line_range_loop: the comparison with start_word the other way round.
RECURSIVE line_range_loop_flipped(_, _, _, _, _, _, _)
line_range_loop_flipped(ls, i, word_count, start_line, end_line, start_word, end_word) ==
    IF i > Len(ls) THEN <<start_line, end_line>>
    ELSE LET line_count == i - 1
             words_in_line == count_words(ls[i])
             start_line2 == IF word_count > start_word THEN line_count ELSE start_line
         IN  IF word_count < end_word
             THEN line_range_loop_flipped(ls, i + 1, word_count + words_in_line,
                                          start_line2, line_count, start_word, end_word)
             ELSE <<start_line2, end_line>>

\* The for loop of get_line_range from the line with (1-based) position i on:
\* line_count is i - 1; returns <<start_line, end_line>> as at loop exit.
RECURSIVE line_range_loop(_, _, _, _, _, _, _)
line_range_loop(ls, i, word_count, start_line, end_line, start_word, end_word) ==
    IF i > Len(ls) THEN <<start_line, end_line>>
    ELSE LET line_count == i - 1
             words_in_line == count_words(ls[i])
             start_line2 == IF word_count < start_word THEN line_count ELSE start_line
         IN  IF word_count < end_word
             THEN line_range_loop(ls, i + 1, word_count + words_in_line,
                                  start_line2, line_count, start_word, end_word)
             ELSE <<start_line2, end_line>>

\* Mutant of get_line_range: end_line returned as the last line, not one past it.
get_line_range_inclusive(content, chunk_index, chunk_size) ==
    LET start_word == chunk_index * chunk_size
        end_word == (chunk_index + 1) * chunk_size
    IN  line_range_loop(lines(content), 1, 0, 0, 0, start_word, end_word)

\* Mutant of get_line_range: end_line made exclusive twice.
get_line_range_twice(content, chunk_index, chunk_size) ==
    LET start_word == chunk_index * chunk_size
        end_word == (chunk_index + 1) * chunk_size
        r == line_range_loop(lines(content), 1, 0, 0, 0, start_word, end_word)
    IN  <<r[1], r[2] + 2>>

get_line_range(content, chunk_index, chunk_size) ==
    LET start_word == chunk_index * chunk_size
        end_word == (chunk_index + 1) * chunk_size
        r == line_range_loop(lines(content), 1, 0, 0, 0, start_word, end_word)
    IN  <<r[1], r[2] + 1>>

\* Mutant of get_file_metadata: the "..." only after a preview that was cut.
get_file_metadata_cut(files, path, chunk_index, start_line, end_line, checks) ==
    LET name == file_name(path)
        read == read_to_string(files, path)
        content == IF read.ok THEN read.data ELSE <<>>
        count == sub_usize(end_line, start_line, checks)
        content_preview == join(skip_take(lines(content), start_line, count.value), <<NL>>)
    IN  [panic |-> count.panic,
         value |->
            [label |-> name \o <<"_", "p", "a", "r", "t">> \o to_decimal(chunk_index),
             file_path |-> path,
             file_name |-> name,
             chunk_index |-> chunk_index,
             start_line |-> start_line,
             end_line |-> end_line,
             content_preview |->
                IF Len(content_preview) > 100
                THEN SubSeq(content_preview, 1, 100) \o <<".", ".", ".">>
                ELSE content_preview]]

\* get_file_metadata.  The file is read again, a failed read giving the empty
\* string; content_preview is made of the lines start_line..end_line of what
\* was read.  panic: the subtraction end_line - start_line overflowed.
get_file_metadata(files, path, chunk_index, start_line, end_line, checks) ==
    LET name == file_name(path)
        read == read_to_string(files, path)
        content == IF read.ok THEN read.data ELSE <<>>
        count == sub_usize(end_line, start_line, checks)
        content_preview == join(skip_take(lines(content), start_line, count.value), <<NL>>)
    IN  [panic |-> count.panic,
         value |->
            [label |-> name \o <<"_", "p", "a", "r", "t">> \o to_decimal(chunk_index),
             file_path |-> path,
             file_name |-> name,
             chunk_index |-> chunk_index,
             start_line |-> start_line,
             end_line |-> end_line,
             content_preview |->
                SubSeq(content_preview, 1, Min(100, Len(content_preview)))
                    \o <<".", ".", ".">>]]

\* Mutant of chunk_index_of: the batch index not scaled by the batch size.
chunk_index_of_unscaled(i, batch, size) == i + batch

\* main, line 58: the index in the file of the i-th chunk of a batch
chunk_index_of(i, batch, size) == i + (batch * size)

\* chunks.chunks(batch_size): the batch with (0-based) index batch
batch_of(cs, batch, size) == slice_chunks(cs, size)[batch + 1]
batch_count(cs, size) == Len(slice_chunks(cs, size))

\* model.embed(batch, None), when it succeeds: one vector per text of the
\* batch, in order.  The vector of a text is opaque; it stands here as the
\* length of the text with its first and last characters.
embedding_of(text) ==
    <<Len(text), SubSeq(text, 1, Min(4, Len(text))),
      SubSeq(text, Max(1, Len(text) - 3), Len(text))>>
embed(batch) == [j \in 1..Len(batch) |-> embedding_of(batch[j])]

\* ---------------------------------------------------------------- rerank.rs
\* A JSON value read from a line is kept as [id, metadata]: metadata.object
\* tells whether item["metadata"] is an object; each of its three fields is
\* [key, ok, v]: key, whether the object has the key; ok, whether the value is of
\* the type asked for (as_str: a string; as_u64: a non-negative integer); v, the value.

\* Mutant of get_full_content: a record that cannot be resolved gives the
\* empty document instead of an error.
get_full_content_lenient(files, item, checks) ==
    LET metadata == item.metadata
        read == read_to_string(files, metadata.file_path.v)
        count == sub_usize(metadata.end_line.v, metadata.start_line.v, checks)
        usable == /\ metadata.object
                  /\ metadata.file_path.key /\ metadata.file_path.ok
                  /\ metadata.start_line.key /\ metadata.start_line.ok
                  /\ metadata.end_line.key /\ metadata.end_line.ok
                  /\ read.ok /\ ~count.panic
    IN  [status |-> "ok", error |-> "",
         doc |-> IF usable
                 THEN join(skip_take(lines(read.data), metadata.start_line.v, count.value),
                           <<NL>>)
                 ELSE <<>>]

\* get_full_content.  status "ok": Ok(doc); "err": Err with the context message;
\* "panic": the thread panics, on indexing the metadata object (a serde_json
\* Map) with a key it does not have, or on the overflow of end_line - start_line.
get_full_content(files, item, checks) ==
    LET metadata == item.metadata
        read == read_to_string(files, metadata.file_path.v)
        count == sub_usize(metadata.end_line.v, metadata.start_line.v, checks)
        Err(msg) == [status |-> "err", error |-> msg, doc |-> <<>>]
        Panic(msg) == [status |-> "panic", error |-> msg, doc |-> <<>>]
    IN  IF ~metadata.object THEN Err("Missing metadata")
        ELSE IF ~metadata.file_path.key THEN Panic("no entry found for key")
        ELSE IF ~metadata.file_path.ok THEN Err("Missing file_path")
        ELSE IF ~metadata.start_line.key THEN Panic("no entry found for key")
        ELSE IF ~metadata.start_line.ok THEN Err("Missing start_line")
        ELSE IF ~metadata.end_line.key THEN Panic("no entry found for key")
        ELSE IF ~metadata.end_line.ok THEN Err("Missing end_line")
        ELSE IF ~read.ok THEN Err("Failed to read file")
        ELSE IF count.panic THEN Panic("attempt to subtract with overflow")
        ELSE [status |-> "ok", error |-> "",
              doc |-> join(skip_take(lines(read.data), metadata.start_line.v, count.value),
                           <<NL>>)]

\* model.rerank(query, documents, true, None), when it succeeds: one result
\* per document, [index, score], by descending score.  The scores are opaque;
\* the order stands here as any order, the scores as the ranks from the end.
Orders(n) == {f \in [1..n -> 1..n] : \A i, j \in 1..n : f[i] = f[j] => i = j}
rerank(n) ==
    {[k \in 1..n |-> [index |-> order[k] - 1, score |-> n - k]] : order \in Orders(n)}

\* ------------------------------------------------------------------ utils.rs
\* A u64 byte count does not fit the integers of TLC: it is kept as the pair
\* <<g, r>> standing for g * 1024 * 1024 * 1024 + r, with 0 <= r < 1024 * 1024 * 1024.
GiB == 1024 * 1024 * 1024
Bytes(g, r) == <<g, r>>
LessThan(a, b) == a[1] < b[1] \/ (a[1] = b[1] /\ a[2] < b[2])

\* Mutant of detect_system_resources: the thresholds belong to the lower tier.
detect_system_resources_inclusive(mem) ==
    IF ~LessThan(Bytes(4, 0), mem) THEN 1
    ELSE IF ~LessThan(Bytes(8, 0), mem) THEN 4
    ELSE IF ~LessThan(Bytes(16, 0), mem) THEN 8
    ELSE 16

detect_system_resources(mem) ==
    IF LessThan(mem, Bytes(4, 0)) THEN 1
    ELSE IF LessThan(mem, Bytes(8, 0)) THEN 4
    ELSE IF LessThan(mem, Bytes(16, 0)) THEN 8
    ELSE 16

\* =================================================== calls of the pure functions
Alphabet == {"a", "b", SP, NL}
StringsOver(A, n) == UNION {[1..k -> A] : k \in 0..n}
Strings(n) == StringsOver(Alphabet, n)
\* Every string up to MaxLen, and the strings of one letter up to three longer.
Contents == Strings(MaxLen) \cup StringsOver({"a", SP, NL}, MaxLen + 3)

FnIdle ==
    /\ arg_content = <<>> /\ arg_chunk_size = 1 /\ arg_chunk_index = 0
    /\ ret_chunks = <<>> /\ ret_range = <<0, 0>> /\ returned = {}
ResIdle == total_memory = Bytes(0, 0) /\ cpu_count = 1 /\ batch_size = 0
EnvIdle ==
    /\ argv1 = "none" /\ stdin = <<>> /\ fs = <<>> /\ stdout = <<>>
    /\ exit_code = -1 /\ pc = "off" /\ overflow_checks = FALSE
VteIdle ==
    /\ main_path = <<>> /\ main_content = <<>> /\ chunks = <<>> /\ batch_index = 0
    /\ embeddings = <<>> /\ emb_i = 0 /\ file_count = 0
    /\ embed_calls = <<>> /\ file_out_start = 0 /\ failed_at = -1
VreIdle ==
    /\ input = <<>> /\ documents = <<>> /\ results = <<>> /\ res_i = 0
    /\ rerank_calls = 0 /\ error = ""

FnInit ==
    /\ arg_content \in Contents
    /\ arg_chunk_size \in 1..MaxChunkSize
    /\ arg_chunk_index \in 0..MaxChunkIndex
    /\ ret_chunks = <<>>
    /\ ret_range = <<0, 0>>
    /\ returned = {}
    /\ ResIdle /\ EnvIdle /\ VteIdle /\ VreIdle

CallSplitIntoChunks ==
    /\ "split_into_chunks" \notin returned
    /\ ret_chunks' = split_into_chunks(arg_content, arg_chunk_size)
    /\ returned' = returned \cup {"split_into_chunks"}
    /\ UNCHANGED <<arg_content, arg_chunk_size, arg_chunk_index, ret_range, res_vars,
                   env_vars, vte_vars, vre_vars>>

CallGetLineRange ==
    /\ "get_line_range" \notin returned
    /\ ret_range' = get_line_range(arg_content, arg_chunk_index, arg_chunk_size)
    /\ returned' = returned \cup {"get_line_range"}
    /\ UNCHANGED <<arg_content, arg_chunk_size, arg_chunk_index, ret_chunks, res_vars,
                   env_vars, vte_vars, vre_vars>>

FnNext == CallSplitIntoChunks \/ CallGetLineRange
FnSpec == FnInit /\ [][FnNext]_vars

\* ======================================================== the batch sizer alone
\* Memory sizes: every whole GiB up to MaxGiB, each with the byte counts next
\* to a GiB boundary and one in the middle.
MemorySizes ==
    {Bytes(g, r) : g \in 0..MaxGiB, r \in {0, 1, GiB \div 2, GiB - 1}}

ResInit ==
    /\ total_memory \in MemorySizes
    /\ cpu_count \in 1..MaxCores
    /\ batch_size = 0
    /\ FnIdle /\ EnvIdle /\ VteIdle /\ VreIdle

DetectSystemResources ==
    /\ batch_size = 0
    /\ batch_size' = detect_system_resources(total_memory)
    /\ UNCHANGED <<total_memory, cpu_count, fn_vars, env_vars, vte_vars, vre_vars>>

ResNext == DetectSystemResources
ResSpec == ResInit /\ [][ResNext]_vars

\* ================================================== text_embed.rs: a run of vte
PathP == <<"p">>
PathQ == <<"d", "/", "q">>
Paths == {PathP, PathQ}
\* Lines of standard input: a path, the same path within blanks, another path.
StdinLines == {PathP, <<SP>> \o PathP \o <<SP>>, PathQ}

\* A file of `words` one-letter words, `per_line` words to a line, the letter
\* changing with every CHUNK_SIZE words.
GenFile(words, per_line) ==
    [q \in 1..(2 * words) |->
        LET j == (q - 1) \div 2
        IN  IF q % 2 = 1
            THEN <<"a", "b", "c", "d", "e", "f", "g">>[((j \div CHUNK_SIZE) % 7) + 1]
            ELSE IF (j + 1) % per_line = 0 THEN NL ELSE SP] \o <<>>

\* Files of less than one chunk: empty; two short lines; runs of blanks, an
\* empty line and a final newline; one line of more than 100 characters.
SmallFiles ==
    { <<>>,
      <<"a", SP, "b", NL, "b">>,
      <<"a", SP, SP, "b", NL, NL, SP, "b", SP, "a", NL>>,
      GenFile(60, 61) }
\* Files of 2, 6 and 17 chunks.
File2 == GenFile(300, 7)
File6 == GenFile(1300, 40)
File17 == GenFile(4100, 128)

File(data) == [exists |-> TRUE, data |-> data]
NoFile == [exists |-> FALSE, data |-> <<>>]

\* One memory size of every tier.
TierSizes == {Bytes(2, 0), Bytes(4, 0), Bytes(8, 0), Bytes(16, 0)}

\* The runs on a file of several chunks: the files of 2 and 6 chunks with
\* every batch size, the file of 17 chunks with the batch sizes 8 and 16.
LargeRuns ==
    {[data |-> d, memory |-> m] : d \in {File2, File6}, m \in TierSizes}
        \cup {[data |-> File17, memory |-> m] : m \in {Bytes(8, 0), Bytes(16, 0)}}

SeqsUpTo(S, n) == UNION {[1..k -> S] : k \in 0..n}

VteInit ==
    /\ cpu_count = 1 /\ batch_size = 0
    /\ \/ /\ argv1 \in {"none", "-h", "--help"}
          /\ total_memory \in TierSizes
          /\ stdin \in SeqsUpTo(StdinLines, MaxLines)
          /\ \E fp \in {File(d) : d \in SmallFiles} \cup {NoFile},
                fq \in {File(<<"b", SP, "a">>), NoFile} :
                fs = (PathP :> fp) @@ (PathQ :> fq)
          /\ overflow_checks \in BOOLEAN
       \/ /\ argv1 = "none"
          /\ stdin = <<PathP>>
          /\ \E run \in LargeRuns :
                /\ total_memory = run.memory
                /\ fs = (PathP :> File(run.data)) @@ (PathQ :> NoFile)
          /\ overflow_checks = TRUE
    /\ stdout = <<>> /\ exit_code = -1 /\ pc = "start"
    /\ VteIdle /\ FnIdle /\ VreIdle

\* An error is returned from main (code 1) or the thread panics (code 101).
Exit(code) == pc' = "exit" /\ exit_code' = code
Fail(code) ==
    /\ Exit(code)
    /\ failed_at' = IF failed_at = -1 THEN Len(stdout) ELSE failed_at

\* main, lines 14-18
VteHelp ==
    /\ pc = "start" /\ argv1 \in {"-h", "--help"}
    /\ Exit(0)
    /\ UNCHANGED <<fn_vars, res_vars, argv1, stdin, fs, stdout, overflow_checks, vte_vars, vre_vars>>

\* main, lines 20-30
VteStart ==
    /\ pc = "start" /\ argv1 \notin {"-h", "--help"}
    /\ batch_size' = detect_system_resources(total_memory)
    /\ pc' = "read_line"
    /\ UNCHANGED <<fn_vars, total_memory, cpu_count, argv1, stdin, fs, stdout, exit_code,
                   overflow_checks, vte_vars, vre_vars>>

\* main, lines 23-25: TextEmbedding::try_new fails
VteModelInitFails ==
    /\ pc = "start" /\ argv1 \notin {"-h", "--help"}
    /\ batch_size' = detect_system_resources(total_memory)
    /\ Fail(1)
    /\ UNCHANGED <<fn_vars, total_memory, cpu_count, argv1, stdin, fs, stdout,
                   overflow_checks, main_path, main_content, chunks, batch_index,
                   embeddings, emb_i, file_count, embed_calls, file_out_start, vre_vars>>

\* main, lines 33 and 73-74: no line is left
VteEndOfInput ==
    /\ pc = "read_line" /\ stdin = <<>>
    /\ Exit(0)
    /\ UNCHANGED <<fn_vars, res_vars, argv1, stdin, fs, stdout, overflow_checks, vte_vars, vre_vars>>

\* main, line 34: reading the line fails
VteStdinFails ==
    /\ pc = "read_line" /\ stdin # <<>>
    /\ stdin' = Tail(stdin)
    /\ Fail(1)
    /\ UNCHANGED <<fn_vars, res_vars, argv1, fs, stdout, overflow_checks, main_path,
                   main_content, chunks, batch_index, embeddings, emb_i, file_count,
                   embed_calls, file_out_start, vre_vars>>

\* main, lines 34-39: the file of the line cannot be read
VteReadFileFails ==
    /\ pc = "read_line" /\ stdin # <<>>
    /\ ~read_to_string(fs, trim(Head(stdin))).ok
    /\ main_path' = trim(Head(stdin))
    /\ stdin' = Tail(stdin)
    /\ Fail(1)
    /\ UNCHANGED <<fn_vars, res_vars, argv1, fs, stdout, overflow_checks,
                   main_content, chunks, batch_index, embeddings, emb_i, file_count,
                   embed_calls, file_out_start, vre_vars>>

\* main, lines 34-43 (and 70 for a file without chunks)
VteReadFile ==
    /\ pc = "read_line" /\ stdin # <<>>
    /\ LET read == read_to_string(fs, trim(Head(stdin)))
           split == split_into_chunks(read.data, CHUNK_SIZE)
       IN  /\ read.ok
           /\ main_path' = trim(Head(stdin))
           /\ main_content' = read.data
           /\ chunks' = split
           /\ IF batch_count(split, batch_size) = 0
              THEN pc' = "read_line" /\ file_count' = file_count + 1
              ELSE pc' = "embed" /\ file_count' = file_count
    /\ stdin' = Tail(stdin)
    /\ batch_index' = 0 /\ embeddings' = <<>> /\ emb_i' = 0
    /\ embed_calls' = <<>> /\ file_out_start' = Len(stdout)
    /\ UNCHANGED <<fn_vars, res_vars, argv1, fs, stdout, exit_code, overflow_checks,
                   failed_at, vre_vars>>

\* main, lines 43-57: model.embed returns the vectors of the batch
VteEmbed ==
    /\ pc = "embed"
    /\ LET batch == batch_of(chunks, batch_index, batch_size)
       IN  /\ embeddings' = embed(batch)
           /\ embed_calls' = Append(embed_calls, Len(batch))
    /\ emb_i' = 0
    /\ pc' = "write"
    /\ UNCHANGED <<fn_vars, res_vars, argv1, stdin, fs, stdout, exit_code,
                   overflow_checks, main_path, main_content, chunks, batch_index,
                   file_count, file_out_start, failed_at, vre_vars>>

\* main, lines 49-55: model.embed fails
VteEmbedFails ==
    /\ pc = "embed"
    /\ embed_calls' = Append(embed_calls, Len(batch_of(chunks, batch_index, batch_size)))
    /\ Fail(1)
    /\ UNCHANGED <<fn_vars, res_vars, argv1, stdin, fs, stdout, overflow_checks,
                   main_path, main_content, chunks, batch_index, embeddings, emb_i,
                   file_count, file_out_start, vre_vars>>

\* main, lines 57-68 (and 43, 70 at the end of a batch, of a file): one
\* embedding of the batch is given its metadata and written, or the write fails.
VteWrite ==
    /\ pc = "write"
    /\ LET chunk_index == chunk_index_of(emb_i, batch_index, batch_size)
           range == get_line_range(main_content, chunk_index, CHUNK_SIZE)
           metadata == get_file_metadata(fs, main_path, chunk_index, range[1], range[2],
                                         overflow_checks)
           output == [label |-> metadata.value.label,
                      vector |-> embeddings[emb_i + 1],
                      metadata |-> metadata.value]
           reread_failed == ~read_to_string(fs, main_path).ok
           first_failure == IF failed_at = -1 THEN Len(stdout) ELSE failed_at
       IN  IF metadata.panic
           THEN /\ Exit(101)
                /\ failed_at' = first_failure
                /\ UNCHANGED <<stdout, emb_i, batch_index, file_count>>
           ELSE \E written \in BOOLEAN :
                  IF written
                  THEN /\ stdout' = Append(stdout, output)
                       /\ failed_at' = IF reread_failed THEN first_failure ELSE failed_at
                       /\ exit_code' = exit_code
                       /\ IF emb_i + 1 < Len(embeddings)
                          THEN /\ emb_i' = emb_i + 1 /\ pc' = "write"
                               /\ UNCHANGED <<batch_index, file_count>>
                          ELSE IF batch_index + 1 < batch_count(chunks, batch_size)
                          THEN /\ batch_index' = batch_index + 1 /\ pc' = "embed"
                               /\ UNCHANGED <<emb_i, file_count>>
                          ELSE /\ file_count' = file_count + 1 /\ pc' = "read_line"
                               /\ UNCHANGED <<emb_i, batch_index>>
                  ELSE /\ Exit(1)
                       /\ failed_at' = first_failure
                       /\ UNCHANGED <<stdout, emb_i, batch_index, file_count>>
    /\ UNCHANGED <<fn_vars, res_vars, argv1, stdin, fs, overflow_checks, main_path,
                   main_content, chunks, embeddings, embed_calls, file_out_start, vre_vars>>

\* The environment: a file is removed while the tool runs.
VteUnlink ==
    /\ pc \in {"read_line", "embed", "write"}
    /\ \E f \in DOMAIN fs :
          /\ fs[f].exists
          /\ fs' = [fs EXCEPT ![f] = NoFile]
    /\ UNCHANGED <<fn_vars, res_vars, argv1, stdin, stdout, exit_code, pc,
                   overflow_checks, vte_vars, vre_vars>>

VteNext ==
    \/ VteHelp \/ VteStart \/ VteModelInitFails
    \/ VteEndOfInput \/ VteStdinFails \/ VteReadFileFails \/ VteReadFile
    \/ VteEmbed \/ VteEmbedFails \/ VteWrite
    \/ VteUnlink
VteSpec == VteInit /\ [][VteNext]_vars

\* ====================================================== rerank.rs: a run of vre
Absent == [key |-> FALSE, ok |-> FALSE]
WrongType == [key |-> TRUE, ok |-> FALSE]
Str(v) == [key |-> TRUE, ok |-> TRUE, v |-> v]
U64(v) == [key |-> TRUE, ok |-> TRUE, v |-> v]
Field(f, v) == [key |-> f.key, ok |-> f.ok, v |-> IF f.key /\ f.ok THEN f.v ELSE v]
Item(id, path, start, end) ==
    [json |-> TRUE, id |-> id,
     metadata |-> [object |-> TRUE, file_path |-> Field(path, <<>>),
                   start_line |-> Field(start, 0), end_line |-> Field(end, 0)]]
NoMetadata(id) ==
    [json |-> TRUE, id |-> id,
     metadata |-> [object |-> FALSE, file_path |-> Field(Absent, <<>>),
                   start_line |-> Field(Absent, 0), end_line |-> Field(Absent, 0)]]
NotJson == [json |-> FALSE, id |-> 0,
            metadata |-> [object |-> FALSE, file_path |-> Field(Absent, <<>>),
                          start_line |-> Field(Absent, 0), end_line |-> Field(Absent, 0)]]

\* The lines of standard input: a line that is no JSON; records without
\* metadata, or with a field absent or of the wrong type; records of the file
\* at PathP with start_line in {0, 1, 2} and end_line in {0, 2, 4}; a record of
\* the file at PathQ, which is not there.
Records ==
    { NotJson,
      NoMetadata(1),
      Item(2, Absent, U64(0), U64(2)), Item(3, WrongType, U64(0), U64(2)),
      Item(4, Str(PathP), Absent, U64(2)), Item(5, Str(PathP), WrongType, U64(2)),
      Item(6, Str(PathP), U64(0), Absent), Item(7, Str(PathP), U64(0), WrongType),
      Item(8, Str(PathQ), U64(0), U64(2)) }
    \cup {Item(10 + (4 * a) + b, Str(PathP), U64(a), U64(b)) : a \in {0, 1, 2}, b \in {0, 2, 4}}

\* Files for PathP: three lines without final newline; four lines, one ended
\* by "\r\n", one empty, with final newline.
RerankFiles ==
    { <<"a", NL, "b", NL, "c">>,
      <<"a", CR, NL, "b", SP, "a", NL, NL, "c", NL>> }

VreInit ==
    /\ argv1 \in {"none", "-h", "--help", "query"}
    /\ stdin \in SeqsUpTo(Records, MaxRecords)
    /\ \E fp \in {File(d) : d \in RerankFiles} \cup {NoFile} :
          fs = (PathP :> fp) @@ (PathQ :> NoFile)
    /\ overflow_checks \in BOOLEAN
    /\ stdout = <<>> /\ exit_code = -1 /\ pc = "start"
    /\ VreIdle /\ VteIdle /\ FnIdle /\ ResIdle

Abort(code, msg) == Exit(code) /\ error' = msg

\* main, lines 11-15
VreHelp ==
    /\ pc = "start" /\ argv1 \in {"none", "-h", "--help"}
    /\ Exit(0)
    /\ UNCHANGED <<fn_vars, res_vars, argv1, stdin, fs, stdout, overflow_checks,
                   vte_vars, vre_vars>>

\* main, lines 17-27
VreStart ==
    /\ pc = "start" /\ argv1 \notin {"none", "-h", "--help"}
    /\ pc' = "parse"
    /\ UNCHANGED <<fn_vars, res_vars, argv1, stdin, fs, stdout, exit_code,
                   overflow_checks, vte_vars, vre_vars>>

\* main, lines 19-22: TextRerank::try_new fails
VreModelInitFails ==
    /\ pc = "start" /\ argv1 \notin {"none", "-h", "--help"}
    /\ Abort(1, "model")
    /\ UNCHANGED <<fn_vars, res_vars, argv1, stdin, fs, stdout, overflow_checks,
                   vte_vars, input, documents, results, res_i, rerank_calls>>

\* main, lines 29-33: every line is read and parsed
VreParse ==
    /\ pc = "parse"
    /\ \A n \in 1..Len(stdin) : stdin[n].json
    /\ input' = stdin
    /\ stdin' = <<>>
    /\ pc' = IF Len(stdin) = 0 THEN "rerank" ELSE "resolve"
    /\ UNCHANGED <<fn_vars, res_vars, argv1, fs, stdout, exit_code, overflow_checks,
                   vte_vars, documents, results, res_i, rerank_calls, error>>

\* main, line 32: a line is no JSON, from_str(..).unwrap() panics
VreParsePanics ==
    /\ pc = "parse"
    /\ \E n \in 1..Len(stdin) : ~stdin[n].json
    /\ stdin' = <<>>
    /\ Abort(101, "unwrap on an Err value")
    /\ UNCHANGED <<fn_vars, res_vars, argv1, fs, stdout, overflow_checks,
                   vte_vars, input, documents, results, res_i, rerank_calls>>

\* main, lines 35-38: the next item is resolved to its document
VreResolve ==
    /\ pc = "resolve"
    /\ LET got == get_full_content(fs, input[Len(documents) + 1], overflow_checks)
       IN  /\ got.status = "ok"
           /\ documents' = Append(documents, got.doc)
    /\ pc' = IF Len(documents) + 1 = Len(input) THEN "rerank" ELSE "resolve"
    /\ UNCHANGED <<fn_vars, res_vars, argv1, stdin, fs, stdout, exit_code,
                   overflow_checks, vte_vars, input, results, res_i, rerank_calls, error>>

\* main, lines 35-38: get_full_content returns an error, main returns it
VreResolveFails ==
    /\ pc = "resolve"
    /\ LET got == get_full_content(fs, input[Len(documents) + 1], overflow_checks)
       IN  /\ got.status = "err"
           /\ Abort(1, got.error)
    /\ UNCHANGED <<fn_vars, res_vars, argv1, stdin, fs, stdout, overflow_checks,
                   vte_vars, input, documents, results, res_i, rerank_calls>>

\* main, lines 35-38: get_full_content panics
VreResolvePanics ==
    /\ pc = "resolve"
    /\ LET got == get_full_content(fs, input[Len(documents) + 1], overflow_checks)
       IN  /\ got.status = "panic"
           /\ Abort(101, got.error)
    /\ UNCHANGED <<fn_vars, res_vars, argv1, stdin, fs, stdout, overflow_checks,
                   vte_vars, input, documents, results, res_i, rerank_calls>>

\* main, lines 40-45: model.rerank returns the results
VreRerank ==
    /\ pc = "rerank"
    /\ results' \in rerank(Len(documents))
    /\ rerank_calls' = rerank_calls + 1
    /\ res_i' = 0
    /\ pc' = "write"
    /\ UNCHANGED <<fn_vars, res_vars, argv1, stdin, fs, stdout, exit_code,
                   overflow_checks, vte_vars, input, documents, error>>

\* main, lines 43-45: model.rerank fails
VreRerankFails ==
    /\ pc = "rerank"
    /\ rerank_calls' = rerank_calls + 1
    /\ Abort(1, "Failed to rerank documents")
    /\ UNCHANGED <<fn_vars, res_vars, argv1, stdin, fs, stdout, overflow_checks,
                   vte_vars, input, documents, results, res_i>>

\* main, lines 47-51: the next result is written with its score
VreWrite ==
    /\ pc = "write" /\ res_i < Len(results)
    /\ LET result == results[res_i + 1]
       IN  stdout' = Append(stdout, [item |-> input[result.index + 1],
                                     rerank_score |-> result.score])
    /\ res_i' = res_i + 1
    /\ UNCHANGED <<fn_vars, res_vars, argv1, stdin, fs, exit_code, pc, overflow_checks,
                   vte_vars, input, documents, results, rerank_calls, error>>

\* main, line 50: the write fails
VreWriteFails ==
    /\ pc = "write" /\ res_i < Len(results)
    /\ Abort(1, "Failed to write output")
    /\ UNCHANGED <<fn_vars, res_vars, argv1, stdin, fs, stdout, overflow_checks,
                   vte_vars, input, documents, results, res_i, rerank_calls>>

\* main, lines 53-54
VreFinish ==
    /\ pc = "write" /\ res_i = Len(results)
    /\ Exit(0)
    /\ UNCHANGED <<fn_vars, res_vars, argv1, stdin, fs, stdout, overflow_checks,
                   vte_vars, vre_vars>>

\* The environment: a file is removed while the tool runs.
VreUnlink ==
    /\ pc \in {"parse", "resolve", "rerank", "write"}
    /\ \E f \in DOMAIN fs :
          /\ fs[f].exists
          /\ fs' = [fs EXCEPT ![f] = NoFile]
    /\ UNCHANGED <<fn_vars, res_vars, argv1, stdin, stdout, exit_code, pc,
                   overflow_checks, vte_vars, vre_vars>>

VreNext ==
    \/ VreHelp \/ VreStart \/ VreModelInitFails
    \/ VreParse \/ VreParsePanics
    \/ VreResolve \/ VreResolveFails \/ VreResolvePanics
    \/ VreRerank \/ VreRerankFails
    \/ VreWrite \/ VreWriteFails \/ VreFinish
    \/ VreUnlink
VreSpec == VreInit /\ [][VreNext]_vars

\* ================================================================== claims
\* Reference reading of a string, one character at a time, used to state the
\* claims: the words of s in order, and the 0-based line each word is on.
RECURSIVE ScanWords(_, _, _, _)
ScanWords(s, i, cur, acc) ==
    IF i > Len(s) THEN (IF cur = <<>> THEN acc ELSE Append(acc, cur))
    ELSE IF s[i] \in {SP, NL, CR, "\t"}
         THEN ScanWords(s, i + 1, <<>>, IF cur = <<>> THEN acc ELSE Append(acc, cur))
         ELSE ScanWords(s, i + 1, Append(cur, s[i]), acc)
WordsOf(s) == ScanWords(s, 1, <<>>, <<>>)

RECURSIVE ScanWordLines(_, _, _, _, _)
ScanWordLines(s, i, line, inword, acc) ==
    IF i > Len(s) THEN acc
    ELSE IF s[i] = NL THEN ScanWordLines(s, i + 1, line + 1, FALSE, acc)
    ELSE IF s[i] \in {SP, CR, "\t"} THEN ScanWordLines(s, i + 1, line, FALSE, acc)
    ELSE ScanWordLines(s, i + 1, line, TRUE, IF inword THEN acc ELSE Append(acc, line))
WordLines(s) == ScanWordLines(s, 1, 0, FALSE, <<>>)

\* Number of lines of s: one per "\n", plus an unterminated last line.
LineCount(s) ==
    Cardinality({i \in 1..Len(s) : s[i] = NL})
        + (IF Len(s) > 0 /\ s[Len(s)] # NL THEN 1 ELSE 0)

RECURSIVE Flatten(_)
Flatten(ss) == IF ss = <<>> THEN <<>> ELSE Head(ss) \o Flatten(Tail(ss))

SplitReturned == "split_into_chunks" \in returned
RangeReturned == "get_line_range" \in returned

\* C1: split_into_chunks returns ceil(w/c) chunks for content of w words (none
\* for w = 0); every chunk but the last holds exactly c words, the last between
\* 1 and c; each chunk is its words joined by single spaces; and the words of
\* the chunks, taken in order, are the words of the content, in order.
C1_ChunksPartitionWords ==
    SplitReturned =>
        LET words == WordsOf(arg_content)
            w == Len(words)
            c == arg_chunk_size
            K == Len(ret_chunks)
            per == [j \in 1..K |-> WordsOf(ret_chunks[j])]
        IN  /\ K = (IF w = 0 THEN 0 ELSE ((w - 1) \div c) + 1)
            /\ \A j \in 1..K : j < K => Len(per[j]) = c
            /\ K > 0 => Len(per[K]) \in 1..c
            /\ Flatten(per) = words
            /\ \A j \in 1..K :
                  /\ ret_chunks[j][1] # SP /\ ret_chunks[j][Len(ret_chunks[j])] # SP
                  /\ \A i \in 1..Len(ret_chunks[j]) : ret_chunks[j][i] # NL
                  /\ \A i \in 1..(Len(ret_chunks[j]) - 1) :
                        ~(ret_chunks[j][i] = SP /\ ret_chunks[j][i + 1] = SP)

\* C1 witness: a call that returned several chunks, the last one short, from
\* content whose words were separated by more than a single space.
C1_Witness ==
    /\ SplitReturned
    /\ Len(ret_chunks) >= 2
    /\ Len(WordsOf(arg_content)) % arg_chunk_size # 0
    /\ Flatten(ret_chunks) # arg_content
    /\ \E i \in 1..Len(arg_content) : arg_content[i] = NL

\* The chunk with index k exists and holds the words first..last (1-based).
ChunkExists(s, k, c) == k * c < Len(WordsOf(s))
FirstWord(k, c) == k * c + 1
LastWord(s, k, c) == Min((k + 1) * c, Len(WordsOf(s)))

\* C2: for a chunk that split_into_chunks produces, the range returned by
\* get_line_range starts at or before the line of the chunk's first word and
\* ends after the line of its last word; so start_line < end_line.
C2_RangeCoversChunk ==
    (RangeReturned /\ ChunkExists(arg_content, arg_chunk_index, arg_chunk_size)) =>
        LET wl == WordLines(arg_content)
            L_first == wl[FirstWord(arg_chunk_index, arg_chunk_size)]
            L_last == wl[LastWord(arg_content, arg_chunk_index, arg_chunk_size)]
        IN  /\ ret_range[1] <= L_first
            /\ L_last < ret_range[2]
            /\ ret_range[1] < ret_range[2]

\* C2 witness: the range of a later chunk whose words lie on two lines.
C2_Witness ==
    /\ RangeReturned
    /\ arg_chunk_index >= 1
    /\ ChunkExists(arg_content, arg_chunk_index, arg_chunk_size)
    /\ LET wl == WordLines(arg_content)
       IN  wl[FirstWord(arg_chunk_index, arg_chunk_size)]
               < wl[LastWord(arg_content, arg_chunk_index, arg_chunk_size)]

\* C3: get_line_range is monotonic in the chunk index: the range returned for
\* chunk i starts and ends no later than the range of any chunk j > i of the
\* same content and chunk size.
C3_RangeMonotonic ==
    RangeReturned =>
        \A j \in (arg_chunk_index + 1)..(MaxChunkIndex + 1) :
            LET later == get_line_range(arg_content, j, arg_chunk_size)
            IN  ret_range[1] <= later[1] /\ ret_range[2] <= later[2]

\* C3 witness: a range that a later chunk's range strictly exceeds at both ends.
C3_Witness ==
    /\ RangeReturned
    /\ \E j \in (arg_chunk_index + 1)..(MaxChunkIndex + 1) :
          /\ ChunkExists(arg_content, j, arg_chunk_size)
          /\ LET later == get_line_range(arg_content, j, arg_chunk_size)
             IN  ret_range[1] < later[1] /\ ret_range[2] < later[2]

\* The chunk with index k is a trailing chunk: its word window ends past the
\* last word of the content.
TrailingChunk(s, k, c) == ChunkExists(s, k, c) /\ (k + 1) * c > Len(WordsOf(s))

\* C9 as stated: some content with at least one word has a trailing chunk whose
\* end_line is greater than the number of lines of the content (looked for, once
\* get_line_range has returned, among all the arguments it can be called with).
C9_EndLineExceedsLineCount ==
    RangeReturned =>
        \E s \in Contents, c \in 1..MaxChunkSize, k \in 0..MaxChunkIndex :
            /\ Len(WordsOf(s)) >= 1
            /\ TrailingChunk(s, k, c)
            /\ get_line_range(s, k, c)[2] > LineCount(s)

\* C9 amended: for content with at least one line, whatever the chunk index,
\* end_line is at most the number of lines; end_line exceeds the line count
\* only for content without any line, where the range is (0, 1).
C9_EndLineWithinLineCount ==
    RangeReturned =>
        IF LineCount(arg_content) >= 1
        THEN ret_range[2] <= LineCount(arg_content)
        ELSE ret_range = <<0, 1>>

\* C9 witness: the range of a trailing chunk whose window ends past the last
\* word, with end_line equal to the line count.
C9_Witness ==
    /\ RangeReturned
    /\ TrailingChunk(arg_content, arg_chunk_index, arg_chunk_size)
    /\ arg_chunk_index >= 1
    /\ ret_range[2] = LineCount(arg_content)

\* The tier of a memory size, from its whole GiB: below 4, 4 to 7, 8 to 15, more.
TierOf(mem) ==
    CASE mem[1] \in 0..3 -> 1
      [] mem[1] \in 4..7 -> 4
      [] mem[1] \in 8..15 -> 8
      [] OTHER -> 16

PreviewOf(text) ==
    [i \in 1..(IF Len(text) < 100 THEN Len(text) ELSE 100) |-> text[i]] \o <<".", ".", ".">>

\* The lines of data with 0-based index from..(to - 1), as far as there are
\* such lines, joined by newlines.
LineSlice(data, from, to) ==
    LET ls == lines(data)
        picked == {i \in 1..Len(ls) : from <= i - 1 /\ i - 1 < to}
        at == Ascending(picked, 1, Len(ls))
    IN  join([n \in 1..Len(at) |-> ls[at[n]]], <<NL>>)

\* A step that writes a line to standard output, and the line written.
WritesLine == Len(stdout') = Len(stdout) + 1
LineWritten == stdout'[Len(stdout')]

\* C6 as stated: once a read of an input file (the initial read, or the read
\* made again for a chunk's metadata), an embed call or a write has failed, no
\* further line is written and the process has exited with a non-zero code.
C6_EveryErrorFatal ==
    failed_at # -1 =>
        /\ Len(stdout) = failed_at
        /\ pc = "exit"
        /\ exit_code \notin {-1, 0}

\* C8 as stated: the content_preview of every line written is the first
\* min(100, n) characters of the chunk's own text (its words joined by single
\* spaces) followed by "..."; stated for the writes where the file could be
\* read again.
C8_PreviewOfChunkText ==
    [][(WritesLine /\ read_to_string(fs, main_path).ok) =>
          LineWritten.metadata.content_preview
              = PreviewOf(chunks[LineWritten.metadata.chunk_index + 1])]_vars

\* C8 amended: the content_preview of every line written is the first
\* min(100, n) characters, followed by "...", of the text made of the lines
\* start_line <= i < end_line of the file as read again at that moment, joined
\* by newlines (the empty text when that read fails), n being its length; the
\* "..." is there also when n < 100, and the preview has at most 103 characters.
C8_PreviewOfLineSlice ==
    [][WritesLine =>
          LET md == LineWritten.metadata
              read == read_to_string(fs, main_path)
              text == IF read.ok THEN LineSlice(read.data, md.start_line, md.end_line)
                      ELSE <<>>
          IN  /\ md.content_preview = PreviewOf(text)
              /\ Len(md.content_preview) <= 103
              /\ Len(text) < 100 => Len(md.content_preview) = Len(text) + 3]_vars

\* C8 witness: standard output holds the line of a later chunk with a preview
\* of 103 characters, cut from a longer text.
C8_Witness ==
    \E n \in 1..Len(stdout) :
        /\ stdout[n].metadata.chunk_index >= 1
        /\ Len(stdout[n].metadata.content_preview) = 103
        /\ read_to_string(fs, main_path).ok

\* C10: when a file is done (every embed call having returned one vector per
\* chunk), ceil(K/b) embed calls were made for its K chunks, each of b chunks
\* but a shorter last one; K lines were written for it, line k (from 0) with
\* chunk_index k, the line range of chunk k and the vector of chunk k: what
\* batch size 1 writes.
C10_BatchingTransparent ==
    (pc = "read_line" /\ file_count >= 1) =>
        LET K == Len(chunks)
            b == batch_size
            calls == (K \div b) + (IF K % b = 0 THEN 0 ELSE 1)
        IN  /\ b \in {1, 4, 8, 16}
            /\ Len(embed_calls) = calls
            /\ \A n \in 1..calls :
                  embed_calls[n] = (IF n < calls THEN b ELSE K - ((calls - 1) * b))
            /\ Len(stdout) - file_out_start = K
            /\ \A k \in 0..(K - 1) :
                  LET line == stdout[file_out_start + k + 1]
                  IN  /\ line.metadata.chunk_index = k
                      /\ <<line.metadata.start_line, line.metadata.end_line>>
                            = get_line_range(main_content, k, CHUNK_SIZE)
                      /\ line.vector = embedding_of(chunks[k + 1])
                      /\ line.label = line.metadata.label

\* C10 witness: a file of 17 chunks done with batch size 16, in two embed
\* calls, the second of a single chunk.
C10_Witness ==
    /\ pc = "read_line" /\ file_count = 1
    /\ batch_size = 16
    /\ embed_calls = <<16, 1>>
    /\ Len(stdout) = 17

\* A record of the input whose three metadata fields are there, of the type
\* asked for.
WellFormed(item) ==
    /\ item.metadata.object
    /\ item.metadata.file_path.key /\ item.metadata.file_path.ok
    /\ item.metadata.start_line.key /\ item.metadata.start_line.ok
    /\ item.metadata.end_line.key /\ item.metadata.end_line.ok
\* A record without metadata object, or lacking one of the three fields.
Lacking(item) ==
    \/ ~item.metadata.object
    \/ ~item.metadata.file_path.key
    \/ ~item.metadata.start_line.key
    \/ ~item.metadata.end_line.key

\* A step of main that resolves the next record (the file system being left alone).
ResolvesNext == pc = "resolve" /\ fs' = fs
NextItem == input[Len(documents) + 1]

\* C4 as stated: a record with file_path, start_line and end_line, of a file
\* that can be read, resolves to the lines start_line <= i < end_line of the
\* file, as far as the file has them, joined by newlines: nothing when
\* end_line <= start_line.
C4_ResolvedDocumentIsSlice ==
    [][(/\ ResolvesNext
        /\ WellFormed(NextItem)
        /\ read_to_string(fs, NextItem.metadata.file_path.v).ok) =>
          documents' = Append(documents,
                              LineSlice(fs[NextItem.metadata.file_path.v].data,
                                        NextItem.metadata.start_line.v,
                                        NextItem.metadata.end_line.v))]_vars

\* C4, the part that holds: the same for the records with start_line <= end_line.
C4_SliceWhenOrdered ==
    [][(/\ ResolvesNext
        /\ WellFormed(NextItem)
        /\ NextItem.metadata.start_line.v <= NextItem.metadata.end_line.v
        /\ read_to_string(fs, NextItem.metadata.file_path.v).ok) =>
          documents' = Append(documents,
                              LineSlice(fs[NextItem.metadata.file_path.v].data,
                                        NextItem.metadata.start_line.v,
                                        NextItem.metadata.end_line.v))]_vars

\* C5: with a record in the input that has no metadata object or lacks
\* file_path, start_line or end_line, nothing is ever written, the reranker is
\* never called and the process exits with a non-zero code; and resolving a
\* record whose file cannot be read ends the process at once with a non-zero
\* code, nothing written, the reranker not called.
C5_FailedResolutionAborts ==
    /\ []((\E n \in 1..Len(input) : Lacking(input[n])) =>
             /\ stdout = <<>>
             /\ rerank_calls = 0
             /\ pc \in {"resolve", "exit"}
             /\ pc = "exit" => exit_code \notin {-1, 0})
    /\ [][(/\ ResolvesNext
           /\ WellFormed(NextItem)
           /\ ~read_to_string(fs, NextItem.metadata.file_path.v).ok) =>
             /\ pc' = "exit"
             /\ exit_code' \notin {-1, 0}
             /\ stdout' = <<>>
             /\ rerank_calls' = 0
             /\ documents' = documents]_vars

\* C5 witness: the process has exited with an error at the second record, which
\* lacks start_line, after resolving the first; nothing was written.
C5_Witness ==
    /\ pc = "exit" /\ exit_code # 0
    /\ Len(input) = 2 /\ Len(documents) = 1
    /\ ~input[2].metadata.start_line.key
    /\ input[2].metadata.file_path.key
    /\ stdout = <<>> /\ rerank_calls = 0

====
